---- MODULE Spec2Model ----
(***************************************************************************)
(* Breadth-first discovery of a bipartite relation (locations <-> entities)*)
(* with a validation check on every discovered location.                   *)
(*                                                                         *)
(* Two drivers are modelled, one per source variant:                       *)
(*   program = "live": searchAgent (data source and validator are remote   *)
(*                     calls, no advisor in the loop);                     *)
(*   program = "sim" : agentLoop (fixed SIMULATED_DATA, local validation,  *)
(*                     advisor consulted at seeding and at each expansion).*)
(* SpecCalls models a client that calls the exported functions directly.   *)
(***************************************************************************)
EXTENDS Integers, Sequences, FiniteSets, TLC

\* ------------------------------------------------------------------ bounds
\* longest list of names in one answer of the live data source
MaxNames == 2
\* answers carrying names that the unconstrained live data source gives in one
\* run; after that it only answers with failures or empty messages
MaxAnswers == 2
\* edges of the relation a consistent live data source answers from
MaxEdges == 4
\* failures (transport errors, restrictions) a consistent live data source
\* injects in one run
MaxFailures == 1
\* calls a client of the exported functions makes (SpecCalls)
MaxCalls == 3
\* invocations of the search in one process (SpecAgain)
MaxInvocations == 2

\* --------------------------------------------------------------- constants
INITIAL_NODES == <<"NodeA", "NodeB">>

ERROR_KEYWORDS == {"restricted", "no data", "anomaly", "error", "forbidden"}

INITIAL_CITIES == <<"Gdansk", "Poznan">>

CORRECT_ANSWER == "OLSZTYN"

SIMULATED_DATA ==
  [people |->
     [MONIKA |-> <<"GDANSK">>,
      PAWEL  |-> <<"GDANSK", "POZNAN">>,
      MARCIN |-> <<"POZNAN">>,
      TOMASZ |-> <<"SZCZECIN", "POZNAN", "WROCLAW">>,
      ECHO   |-> <<"GDANSK", "POZNAN", "WARSZAWA", "WROCLAW", "OLSZTYN">>,
      GHOST  |-> <<"SZCZECIN", "WROCLAW", "OLSZTYN">>],
   places |->
     [GDANSK   |-> <<"MONIKA", "PAWEL", "ECHO">>,
      POZNAN   |-> <<"PAWEL", "MARCIN", "TOMASZ", "ECHO">>,
      SZCZECIN |-> <<"TOMASZ", "GHOST">>,
      WARSZAWA |-> <<"ECHO">>,
      WROCLAW  |-> <<"TOMASZ", "ECHO", "GHOST">>,
      OLSZTYN  |-> <<"ECHO", "GHOST">>]]

\* what getData and askModel return when they have nothing: null and the
\* empty list are the same to every caller (`x?.length`)
Null == << >>

NoTargetFound == "No target found"

NoDataFound == "No data found"

FallbackToken == "ECHO"

\* ----------------------------------------------------------------- strings
\* String.prototype.toUpperCase on the strings of the model
toUpperCase(s) ==
  CASE s = "Gdansk"  -> "GDANSK"
    [] s = "Poznan"  -> "POZNAN"
    [] s = "Olsztyn" -> "OLSZTYN"
    [] s = "olsztyn" -> "OLSZTYN"
    [] s = "echo"    -> "ECHO"
    [] s = "NodeA"   -> "NODEA"
    [] s = "NodeB"   -> "NODEB"
    [] s = "nodea"   -> "NODEA"
    [] s = "x"       -> "X"
    [] OTHER         -> s

Range(f) == {f[i] : i \in DOMAIN f}

\* Array.prototype.includes / Set.prototype.has on a list
Includes(list, x) == \E i \in DOMAIN list : list[i] = x

\* Set.prototype.has on the two sets of starting nodes (exact string match)
INITIAL_NODES_has(x) == Includes(INITIAL_NODES, x)

INITIAL_CITIES_has(x) == Includes(INITIAL_CITIES, x)

\* Map.prototype.set
MapSet(m, k, v) == (k :> v) @@ m

Node(t, v) == [type |-> t, value |-> v]

NoNode == Node("none", "")

\* ------------------------------------------------------------- environment
\* names the live data source may return, for either endpoint
DataNames == {"NodeA", "X"}

\* lists of 1..MaxNames names
NameLists == UNION {[1..n -> DataNames] : n \in 1..MaxNames}

\* A reply of the live data source: the request throws (transport or protocol
\* error), the body has no message, or the body has a message. A message is
\* the list of its whitespace-separated pieces ("" is a blank run: a message
\* of blanks only); a restriction keyword is one piece.
Throw == [kind |-> "throw", words |-> << >>]

NoMessage == [kind |-> "nomessage", words |-> << >>]

Message(w) == [kind |-> "message", words |-> w]

FailureReplies ==
  {Throw, NoMessage, Message(<<"">>)} \cup {Message(<<k>>) : k \in ERROR_KEYWORDS}

NameReplies == {Message(w) : w \in NameLists}

\* A consistent data source answers both endpoints from one relation between
\* locations and entities: the entities at a location, the locations of an
\* entity, each list in the order of the names below or in the opposite one.
GraphLocations == <<"NodeA", "NodeB", "X", "Y">>

GraphEntities == <<"E1", "E2">>

Graphs ==
  {g \in SUBSET (Range(GraphLocations) \X Range(GraphEntities)) : Cardinality(g) <= MaxEdges}

Reverse(list) == [i \in 1..Len(list) |-> list[Len(list) + 1 - i]]

Adjacent(g, endpoint, query) ==
  IF endpoint = "locations"
    THEN SelectSeq(GraphEntities, LAMBDA e : <<query, e>> \in g)
    ELSE SelectSeq(GraphLocations, LAMBDA l : <<l, query>> \in g)

InjectedFailures == {Throw, Message(<<"restricted">>)}

GraphReplies(g, endpoint, query) ==
  LET adj == Adjacent(g, endpoint, query)
  IN  IF adj = << >> THEN {NoMessage, Message(<<"no data">>)}
      ELSE {Message(adj), Message(Reverse(adj))}

\* A reply of the validation endpoint: it throws, or carries a code and a
\* message that has the marker SUCCESS: or not.
ValidateThrow == [kind |-> "throw", code |-> -1, marker |-> FALSE]

ValidateData(c, m) == [kind |-> "data", code |-> c, marker |-> m]

\* the endpoint accepts one answer, `target`
ValidateReplies(answer, tgt) ==
  IF answer = tgt
    THEN {ValidateThrow, ValidateData(0, TRUE)}
    ELSE {ValidateThrow, ValidateData(0, FALSE), ValidateData(-1, TRUE),
          ValidateData(-1, FALSE)}

\* A reply of the advisory model: it throws, the content is empty, or the
\* content is a token.
AdvisorTokens ==
  {"MONIKA", "PAWEL", "MARCIN", "TOMASZ", "ECHO", "echo", "Gdansk", "Poznan",
   "GDANSK", "WARSZAWA", "OLSZTYN", "olsztyn", "KONIN"}

AdvisorThrow == [kind |-> "throw", content |-> ""]

AdvisorContent(t) == [kind |-> "content", content |-> t]

AdvisorReplies ==
  {AdvisorThrow, AdvisorContent(""), AdvisorContent(" ")}
    \cup {AdvisorContent(t) : t \in AdvisorTokens}

\* ------------------------------------------------------------------- state
VARIABLES
  program,           \* "live" (searchAgent) or "sim" (agentLoop)
  \* knowledgeBase
  entityLocations,   \* entity -> locations   (sim: peopleLocations)
  locationEntities,  \* location -> entities  (sim: cityPeople)
  visitedLocations,  \* (sim: visitedCities)
  visitedEntities,   \* (sim: visitedPeople)
  testedTargets,     \* (sim: testedLocations)
  failedQueries,
  context,
  \* the driver
  pc,                \* where the driver (or the client) stands
  queue,
  queueIndex,
  current,           \* the node dequeued last
  names,             \* what getData returned for `current`
  todo,              \* the neighbours the for loop has still to look at
  candidate,         \* the location under validation
  advice,            \* what askModel returned last
  result,            \* what the search returned ("" while it runs)
  \* the outside world
  inflight,          \* external requests issued and not yet answered
  source,            \* the data source: "table" (sim), "any" or "graph" (live)
  edges,             \* the relation of a "graph" data source
  target,            \* the answer the live validation endpoint accepts
  answers,           \* answers with names given by an "any" data source
  failures,          \* failures injected by a "graph" data source
  advisor,           \* how the advisor has answered in this run, so far
  invocation,        \* which invocation of the search in this process this is
  first,             \* what the first invocation returned ("" during it)
  \* history
  trace,             \* every lookup, validation and advisor request issued
  parent,            \* node -> the node whose expansion enqueued it
  dequeued,          \* the nodes in the order the loop took them
  returned           \* the last return of an exported function

kb == <<entityLocations, locationEntities, visitedLocations, visitedEntities,
        testedTargets, failedQueries, context>>

driver == <<pc, queue, queueIndex, current, names, todo, candidate, advice, result>>

env == <<source, edges, target, advisor, invocation, first>>

budget == <<answers, failures>>

world == <<inflight, env, budget>>

history == <<trace, parent, dequeued, returned>>

vars == <<program, kb, driver, world, history>>

Seed == Node("seed", "")

NoReturn == [fn |-> "none", arg |-> "", value |-> Null, raised |-> FALSE]

\* a returned value is written as a list of strings: a list of names as it is,
\* null as the empty list, a token as a list of one, a boolean as Bool
Bool(b) == IF b THEN <<"true">> ELSE <<"false">>

Return(f, a, v) == [fn |-> f, arg |-> a, value |-> v, raised |-> FALSE]

Raise(f, a) == [fn |-> f, arg |-> a, value |-> Null, raised |-> TRUE]

\* an external request; `id` is its position in the trace
Request(k, e, a) == [kind |-> k, endpoint |-> e, arg |-> a, id |-> Len(trace) + 1]

Logged(k, e, a) == [kind |-> k, endpoint |-> e, arg |-> a]

InitKB ==
  /\ entityLocations = << >>
  /\ locationEntities = << >>
  /\ visitedLocations = {}
  /\ visitedEntities = {}
  /\ testedTargets = {}
  /\ failedQueries = {}
  /\ context = ""

InitRest ==
  /\ queue = << >>
  /\ queueIndex = 0
  /\ current = NoNode
  /\ names = Null
  /\ todo = << >>
  /\ candidate = ""
  /\ advice = ""
  /\ result = ""
  /\ inflight = {}
  /\ answers = 0
  /\ failures = 0
  /\ advisor = "none"
  /\ invocation = 1
  /\ first = ""
  /\ trace = << >>
  /\ parent = << >>
  /\ dequeued = << >>
  /\ returned = NoReturn

\* one search run of either variant, from a fresh process
Init ==
  /\ program \in {"live", "sim"}
  /\ pc = "start"
  /\ source \in IF program = "live" THEN {"any", "graph"} ELSE {"table"}
  /\ edges \in IF source = "graph" THEN Graphs ELSE {{}}
  /\ target \in IF source = "any" THEN DataNames \cup {"none"}
               ELSE IF source = "graph" THEN {"X", "Y", "none"}
               ELSE {CORRECT_ANSWER}
  /\ InitKB
  /\ InitRest

\* ------------------------------------------------------- knowledge base use
\* (a getData without the cache check)
getDataCached_never(endpoint, query) == FALSE

\* (a cache that tells the endpoints apart)
getDataCached_perEndpoint(endpoint, query) ==
  /\ query \in failedQueries
  /\ \E i \in DOMAIN trace : trace[i] = [kind |-> "lookup", endpoint |-> endpoint, arg |-> query]

\* (a cache that a later invocation does not look at)
getDataCached_stale(endpoint, query) == query \in failedQueries /\ invocation = 1

\* getData's first statement: the failure cache
getDataCached(endpoint, query) == query \in failedQueries

\* String.prototype.includes, on the pieces of the model: no name of the model
\* has a restriction keyword inside it
StrIncludes(piece, keyword) == piece = keyword

isErrorResponse(words) ==
  \E keyword \in ERROR_KEYWORDS : \E i \in DOMAIN words : StrIncludes(words[i], keyword)

\* message.trim().split(/\s+/).filter(name => name.length > 0)
SplitNames(words) == SelectSeq(words, LAMBDA w : w # "")

\* getData of the live variant once the request has settled: what it returns
\* and whether it records the query as failed
getDataLive(reply) ==
  IF reply.kind = "throw" THEN [value |-> Null, failed |-> TRUE]
  ELSE IF reply.kind = "message" /\ reply.words # << >> /\ isErrorResponse(reply.words)
    THEN [value |-> Null, failed |-> TRUE]
  ELSE IF reply.kind = "message" /\ reply.words # << >>
    THEN [value |-> SplitNames(reply.words), failed |-> FALSE]
  ELSE [value |-> Null, failed |-> FALSE]

\* (a lookup that forgets to upper-case the query)
getDataSim_raw(endpoint, query) ==
  LET table == IF endpoint = "people" THEN SIMULATED_DATA.people
               ELSE IF endpoint = "places" THEN SIMULATED_DATA.places
               ELSE << >>
      found == IF query \in DOMAIN table THEN table[query] ELSE Null
  IN  IF Len(found) > 0 THEN [value |-> found, failed |-> FALSE]
      ELSE [value |-> Null, failed |-> TRUE]

\* getData of the simulated variant after the cache check: the table lookup
getDataSim(endpoint, query) ==
  LET normalizedQuery == toUpperCase(query)
      table == IF endpoint = "people" THEN SIMULATED_DATA.people
               ELSE IF endpoint = "places" THEN SIMULATED_DATA.places
               ELSE << >>
      found == IF normalizedQuery \in DOMAIN table THEN table[normalizedQuery] ELSE Null
  IN  IF Len(found) > 0 THEN [value |-> found, failed |-> FALSE]
      ELSE [value |-> Null, failed |-> TRUE]

\* (a testTarget without its dedup check)
testTargetSkips_never(tgt) == FALSE

\* testTarget's first statement: the dedup check
testTargetSkips(tgt) == tgt \in testedTargets

\* (a testTarget that leaves the marking for after the request)
MarkTested_later(tested, tgt) == tested

\* `knowledgeBase.testedTargets.add(target)`, before the request is made
MarkTested(tested, tgt) == tested \cup {tgt}

\* (a reading of the reply that looks at the code alone)
validateSuccess_codeOnly(reply) == reply.kind = "data" /\ reply.code = 0

\* testTarget's reading of the validation reply
validateSuccess(reply) == reply.kind = "data" /\ reply.code = 0 /\ reply.marker

\* (a loop body that goes on after a successful validation)
returnsOn_never(success) == FALSE

\* `if (success) return location;` in the loop body of both drivers
returnsOn(success) == success

\* (a check that forgets the starting nodes)
shouldTestTarget_any(tgt) == tgt \notin testedTargets

shouldTestTarget(tgt) == tgt \notin testedTargets /\ ~INITIAL_NODES_has(tgt)

\* testLocation of the simulated variant: whether it skips, and its verdict
testLocationSkips(location) == toUpperCase(location) \in testedTargets

testLocationVerdict(location) == toUpperCase(location) = CORRECT_ANSWER

shouldTestLocation(place) ==
  toUpperCase(place) \notin testedTargets /\ ~INITIAL_CITIES_has(place)

\* String.prototype.trim on the advisor's content
Trim(s) == IF s = " " THEN "" ELSE s

\* (a catch branch that returns the empty string)
askModel_empty(reply) ==
  IF reply.kind = "throw" THEN ""
  ELSE IF Trim(reply.content) = "" THEN FallbackToken
  ELSE Trim(reply.content)

\* askModel: the token, or the fallback on an empty reply or a failure
askModel(reply) ==
  IF reply.kind = "throw" THEN FallbackToken
  ELSE IF Trim(reply.content) = "" THEN FallbackToken
  ELSE Trim(reply.content)

\* (a stack discipline: the new node is the next one read)
Push_next(q, node) ==
  SubSeq(q, 1, queueIndex) \o <<node>> \o SubSeq(q, queueIndex + 1, Len(q))

\* (a push at the wrong end: unshift)
Push_front(q, node) == <<node>> \o q

\* queue.push
Push(q, node) == Append(q, node)

\* (an enqueue loop that forgets visited.add)
RECURSIVE PushUnvisited_unmarked(_, _, _, _)
PushUnvisited_unmarked(q, visited, type, list) ==
  IF list = << >> THEN [queue |-> q, visited |-> visited]
  ELSE IF Head(list) \in visited THEN PushUnvisited_unmarked(q, visited, type, Tail(list))
  ELSE PushUnvisited_unmarked(Push(q, Node(type, Head(list))), visited, type, Tail(list))

\* (a loop that marks a name as visited and does not push it)
PushUnvisited_unpushed(q, visited, type, list) ==
  [queue |-> q, visited |-> visited \cup Range(list)]

\* `for (x of list) if (!visited.has(x)) { queue.push(x); visited.add(x) }`
RECURSIVE PushUnvisited(_, _, _, _)
PushUnvisited(q, visited, type, list) ==
  IF list = << >> THEN [queue |-> q, visited |-> visited]
  ELSE IF Head(list) \in visited THEN PushUnvisited(q, visited, type, Tail(list))
  ELSE PushUnvisited(Push(q, Node(type, Head(list))), visited \cup {Head(list)},
                     type, Tail(list))

\* `for (x of list) { queue.push(x); visited.add(x) }`, the seeding loop
RECURSIVE PushAll(_, _, _)
PushAll(q, type, list) ==
  IF list = << >> THEN q
  ELSE PushAll(Push(q, Node(type, Head(list))), type, Tail(list))

\* history: the nodes new in q2 were enqueued by `by`
Adopt(q2, by) == [n \in Range(q2) \ DOMAIN parent |-> by] @@ parent

\* (an await that goes on while its request is still out)
Settle_later(pending, req) == pending

\* an `await` resumes: its request is no longer pending
Settle(pending, req) == pending \ {req}

\* what the live data source may answer to a request
DataReplies(req) ==
  IF source = "graph"
    THEN GraphReplies(edges, req.endpoint, req.arg)
           \cup (IF failures < MaxFailures THEN InjectedFailures ELSE {})
    ELSE FailureReplies \cup (IF answers < MaxAnswers THEN NameReplies ELSE {})

\* ------------------------------------------------------ searchAgent (live)
searchAgentSeed ==
  /\ pc = "start" /\ program = "live"
  /\ queue' = PushAll(<< >>, "location", INITIAL_NODES)
  /\ visitedLocations' = visitedLocations \cup Range(INITIAL_NODES)
  /\ parent' = Adopt(queue', Seed)
  /\ pc' = "loop"
  /\ UNCHANGED <<program, entityLocations, locationEntities, visitedEntities,
                 testedTargets, failedQueries, context, queueIndex, current, names,
                 todo, candidate, advice, result, world, trace, dequeued, returned>>

\* `queue[queueIndex++]`: the node at the read index (0-based in the code)
Dequeue(q, index) == q[index + 1]

\* `current = queue[queueIndex++]` and getData up to its request
searchAgentDequeue ==
  /\ pc = "loop" /\ program = "live"
  /\ queueIndex < Len(queue)
  /\ LET cur == Dequeue(queue, queueIndex)
         endpoint == IF cur.type = "location" THEN "locations" ELSE "entities"
     IN  /\ current' = cur
         /\ queueIndex' = queueIndex + 1
         /\ dequeued' = Append(dequeued, cur)
         /\ IF getDataCached(endpoint, cur.value)
              THEN /\ returned' = Return("getData", cur.value, Null)
                   /\ names' = Null
                   /\ pc' = "loop"
                   /\ UNCHANGED <<inflight, trace>>
              ELSE /\ inflight' = inflight \cup {Request("lookup", endpoint, cur.value)}
                   /\ trace' = Append(trace, Logged("lookup", endpoint, cur.value))
                   /\ pc' = "awaitData"
                   /\ UNCHANGED <<returned, names>>
  /\ UNCHANGED <<program, kb, queue, todo, candidate, advice, result, env, budget, parent>>

\* the data source answers; getData returns; the loop body runs to its next call
searchAgentData(req, reply) ==
  /\ pc = "awaitData" /\ program = "live"
  /\ req \in inflight /\ req.kind = "lookup"
  /\ reply \in DataReplies(req)
  /\ answers' = IF source = "any" /\ reply \in NameReplies THEN answers + 1 ELSE answers
  /\ failures' = IF source = "graph" /\ reply \in InjectedFailures THEN failures + 1
                 ELSE failures
  /\ inflight' = Settle(inflight, req)
  /\ LET r == getDataLive(reply)
     IN  /\ failedQueries' = IF r.failed THEN failedQueries \cup {req.arg}
                             ELSE failedQueries
         /\ returned' = Return("getData", req.arg, r.value)
         /\ names' = r.value
         /\ IF Len(r.value) = 0
              THEN /\ pc' = "loop"
                   /\ UNCHANGED <<entityLocations, locationEntities, visitedEntities,
                                  queue, todo, parent>>
            ELSE IF current.type = "location"
              THEN LET p == PushUnvisited(queue, visitedEntities, "entity", r.value)
                   IN  /\ locationEntities' = MapSet(locationEntities, current.value, r.value)
                       /\ queue' = p.queue
                       /\ visitedEntities' = p.visited
                       /\ parent' = Adopt(p.queue, current)
                       /\ pc' = "loop"
                       /\ UNCHANGED <<entityLocations, todo>>
            ELSE /\ entityLocations' = MapSet(entityLocations, current.value, r.value)
                 /\ todo' = r.value
                 /\ pc' = "candidates"
                 /\ UNCHANGED <<locationEntities, visitedEntities, queue, parent>>
  /\ UNCHANGED <<program, visitedLocations, testedTargets, context, queueIndex,
                 current, candidate, advice, result, env, trace, dequeued>>

\* one turn of `for (const location of locations)`, up to testTarget's request
searchAgentCandidate ==
  /\ pc = "candidates" /\ program = "live"
  /\ todo # << >>
  /\ todo' = Tail(todo)
  /\ LET location == Head(todo)
     IN  IF ~shouldTestTarget(location)
           THEN UNCHANGED <<testedTargets, visitedLocations, queue, parent, candidate,
                            inflight, trace, returned, pc>>
         ELSE IF testTargetSkips(location)
           THEN LET p == PushUnvisited(queue, visitedLocations, "location", <<location>>)
                IN  /\ returned' = Return("testTarget", location, Bool(FALSE))
                    /\ queue' = p.queue
                    /\ visitedLocations' = p.visited
                    /\ parent' = Adopt(p.queue, current)
                    /\ UNCHANGED <<testedTargets, candidate, inflight, trace, pc>>
         ELSE /\ testedTargets' = MarkTested(testedTargets, location)
              /\ candidate' = location
              /\ inflight' = inflight \cup {Request("validate", "validate", location)}
              /\ trace' = Append(trace, Logged("validate", "validate", location))
              /\ pc' = "awaitValidate"
              /\ UNCHANGED <<visitedLocations, queue, parent, returned>>
  /\ UNCHANGED <<program, entityLocations, locationEntities, visitedEntities,
                 failedQueries, context, queueIndex, current, names, advice, result,
                 env, budget, dequeued>>

\* the validation endpoint answers; testTarget returns; success ends the search
searchAgentValidated(req, reply) ==
  /\ pc = "awaitValidate" /\ program = "live"
  /\ req \in inflight /\ req.kind = "validate"
  /\ reply \in ValidateReplies(req.arg, target)
  /\ inflight' = Settle(inflight, req)
  /\ returned' = Return("testTarget", req.arg, Bool(validateSuccess(reply)))
  /\ IF returnsOn(validateSuccess(reply))
       THEN /\ result' = candidate
            /\ pc' = "found"
            /\ UNCHANGED <<queue, visitedLocations, parent>>
       ELSE LET p == PushUnvisited(queue, visitedLocations, "location", <<candidate>>)
            IN  /\ queue' = p.queue
                /\ visitedLocations' = p.visited
                /\ parent' = Adopt(p.queue, current)
                /\ pc' = "candidates"
                /\ UNCHANGED result
  /\ UNCHANGED <<program, entityLocations, locationEntities, visitedEntities,
                 testedTargets, failedQueries, context, queueIndex, current, names,
                 todo, candidate, advice, env, budget, trace, dequeued>>

\* the for loop over the locations is over
candidatesDone ==
  /\ pc = "candidates"
  /\ todo = << >>
  /\ pc' = "loop"
  /\ UNCHANGED <<program, kb, queue, queueIndex, current, names, todo, candidate,
                 advice, result, world, history>>

\* `while (queueIndex < queue.length)` is false: the sentinel
exhausted ==
  /\ pc = "loop"
  /\ queueIndex >= Len(queue)
  /\ result' = IF program = "live" THEN NoTargetFound ELSE NoDataFound
  /\ pc' = "exhausted"
  /\ UNCHANGED <<program, kb, queue, queueIndex, current, names, todo, candidate,
                 advice, world, history>>

\* -------------------------------------------------------- agentLoop (sim)
\* Array.prototype.lastIndexOf (0 when absent; lists are 1-based here)
lastIndexOf_first(list, x) ==
  IF Includes(list, x)
    THEN CHOOSE i \in DOMAIN list : list[i] = x /\ \A j \in DOMAIN list : list[j] = x => i <= j
    ELSE 0

lastIndexOf(list, x) ==
  IF Includes(list, x)
    THEN CHOOSE i \in DOMAIN list : list[i] = x /\ \A j \in DOMAIN list : list[j] = x => j <= i
    ELSE 0

\* list.splice(i, 1)
RemoveAt(list, i) == [j \in 1..(Len(list) - 1) |-> IF j < i THEN list[j] ELSE list[j + 1]]

\* `prioritized = people.slice(); if (people.includes(ai)) { prioritized.unshift(ai);
\*  prioritized.splice(prioritized.lastIndexOf(ai), 1) }`
Prioritized(people, ai) ==
  IF Includes(people, ai)
    THEN RemoveAt(<<ai>> \o people, lastIndexOf(<<ai>> \o people, ai))
    ELSE people

\* the seeding order: the advised city first when it is a starting city
SeedOrder(aiCity) ==
  IF INITIAL_CITIES_has(aiCity)
    THEN <<aiCity>> \o SelectSeq(INITIAL_CITIES, LAMBDA city : city # aiCity)
    ELSE INITIAL_CITIES

\* (a getText that logs the failure and returns)
getTextRaises_never(contextLoads) == FALSE

\* getText rethrows when data.txt is missing or blank, and agentLoop does not
\* catch it
getTextRaises(contextLoads) == ~contextLoads

\* getText, then askModel up to its request; getText throws when data.txt is
\* missing or empty
agentLoopStart(contextLoads) ==
  /\ pc = "start" /\ program = "sim"
  /\ IF ~getTextRaises(contextLoads)
       THEN /\ context' = IF contextLoads THEN "loaded" ELSE context
            /\ inflight' = inflight \cup {Request("advise", "openai", "seed")}
            /\ trace' = Append(trace, Logged("advise", "openai", "seed"))
            /\ pc' = "awaitSeedAdvice"
            /\ UNCHANGED returned
       ELSE /\ returned' = Raise("agentLoop", "getText")
            /\ pc' = "raised"
            /\ UNCHANGED <<context, inflight, trace>>
  /\ UNCHANGED <<program, entityLocations, locationEntities, visitedLocations,
                 visitedEntities, testedTargets, failedQueries, queue, queueIndex,
                 current, names, todo, candidate, advice, result, env, budget,
                 parent, dequeued>>

\* the advisor answers the first question; the starting cities are enqueued
agentLoopSeed(req, reply) ==
  /\ pc = "awaitSeedAdvice" /\ program = "sim"
  /\ req \in inflight /\ req.kind = "advise"
  /\ inflight' = Settle(inflight, req)
  /\ advice' = askModel(reply)
  /\ returned' = Return("askModel", req.arg, <<askModel(reply)>>)
  /\ LET seeds == SeedOrder(toUpperCase(askModel(reply)))
     IN  /\ queue' = PushAll(<< >>, "city", seeds)
         /\ visitedLocations' = visitedLocations \cup Range(seeds)
         /\ parent' = Adopt(queue', Seed)
  /\ pc' = "loop"
  /\ UNCHANGED <<program, entityLocations, locationEntities, visitedEntities,
                 testedTargets, failedQueries, context, queueIndex, current, names,
                 todo, candidate, result, source, edges,
                 target, invocation, first, budget, trace, dequeued>>

\* `current = queue[queueIndex++]`, getData (a table lookup, no request), and
\* askModel up to its request when getData returned names
agentLoopDequeue ==
  /\ pc = "loop" /\ program = "sim"
  /\ queueIndex < Len(queue)
  /\ LET cur == Dequeue(queue, queueIndex)
         endpoint == IF cur.type = "city" THEN "places" ELSE "people"
         r == getDataSim(endpoint, cur.value)
         lookup == Logged("lookup", endpoint, cur.value)
         ask == Logged("advise", "openai", cur.value)
     IN  /\ current' = cur
         /\ queueIndex' = queueIndex + 1
         /\ dequeued' = Append(dequeued, cur)
         /\ IF getDataCached(endpoint, cur.value)
              THEN /\ returned' = Return("getData", cur.value, Null)
                   /\ names' = Null
                   /\ pc' = "loop"
                   /\ UNCHANGED <<failedQueries, entityLocations, locationEntities,
                                  inflight, trace>>
            ELSE IF Len(r.value) = 0
              THEN /\ returned' = Return("getData", cur.value, Null)
                   /\ names' = Null
                   /\ failedQueries' = IF r.failed THEN failedQueries \cup {cur.value}
                                       ELSE failedQueries
                   /\ trace' = Append(trace, lookup)
                   /\ pc' = "loop"
                   /\ UNCHANGED <<entityLocations, locationEntities, inflight>>
            ELSE /\ returned' = Return("getData", cur.value, r.value)
                 /\ names' = r.value
                 /\ IF cur.type = "city"
                      THEN /\ locationEntities' = MapSet(locationEntities, cur.value, r.value)
                           /\ UNCHANGED entityLocations
                      ELSE /\ entityLocations' = MapSet(entityLocations, cur.value, r.value)
                           /\ UNCHANGED locationEntities
                 /\ trace' = trace \o <<lookup, ask>>
                 /\ inflight' = inflight \cup {ask @@ [id |-> Len(trace) + 2]}
                 /\ pc' = "awaitAdvice"
                 /\ UNCHANGED failedQueries
  /\ UNCHANGED <<program, visitedLocations, visitedEntities, testedTargets, context,
                 queue, todo, candidate, advice, result, env, budget, parent>>

\* the advisor answers; for a city the people are enqueued, advised one first
agentLoopAdvice(req, reply) ==
  /\ pc = "awaitAdvice" /\ program = "sim"
  /\ req \in inflight /\ req.kind = "advise"
  /\ inflight' = Settle(inflight, req)
  /\ advice' = askModel(reply)
  /\ returned' = Return("askModel", req.arg, <<askModel(reply)>>)
  /\ IF current.type = "city"
       THEN LET prioritizedPeople == Prioritized(names, toUpperCase(askModel(reply)))
                p == PushUnvisited(queue, visitedEntities, "person", prioritizedPeople)
            IN  /\ queue' = p.queue
                /\ visitedEntities' = p.visited
                /\ parent' = Adopt(p.queue, current)
                /\ pc' = "loop"
       ELSE /\ pc' = "aiCandidate"
            /\ UNCHANGED <<queue, visitedEntities, parent>>
  /\ UNCHANGED <<program, entityLocations, locationEntities, visitedLocations,
                 testedTargets, failedQueries, context, queueIndex, current, names,
                 todo, candidate, result, source, edges,
                 target, invocation, first, budget, trace, dequeued>>

\* `success = await testLocation(place); if (success) return place;
\*  if (!visitedCities.has(place)) { queue.push(place); visitedCities.add(place) }`
testAndEnqueue(place) ==
  LET success == ~testLocationSkips(place) /\ testLocationVerdict(place)
      p == PushUnvisited(queue, visitedLocations, "city", <<place>>)
  IN  /\ candidate' = place
      /\ returned' = Return("testLocation", place, Bool(success))
      /\ IF testLocationSkips(place)
           THEN UNCHANGED <<testedTargets, trace>>
           ELSE /\ testedTargets' = testedTargets \cup {toUpperCase(place)}
                /\ trace' = Append(trace, Logged("validate", "local", place))
      /\ IF returnsOn(success)
           THEN /\ result' = place
                /\ pc' = "found"
                /\ UNCHANGED <<queue, visitedLocations, parent>>
           ELSE /\ queue' = p.queue
                /\ visitedLocations' = p.visited
                /\ parent' = Adopt(p.queue, current)
                /\ pc' = "candidates"
                /\ UNCHANGED result

\* the advised place is tested first when it is among the places and eligible
agentLoopAiCandidate ==
  /\ pc = "aiCandidate" /\ program = "sim"
  /\ todo' = names
  /\ LET aiLocation == toUpperCase(advice)
     IN  IF Includes(names, aiLocation) /\ shouldTestLocation(aiLocation)
           THEN testAndEnqueue(aiLocation)
           ELSE /\ pc' = "candidates"
                /\ UNCHANGED <<candidate, returned, testedTargets, trace, result, queue,
                               visitedLocations, parent>>
  /\ UNCHANGED <<program, entityLocations, locationEntities, visitedEntities,
                 failedQueries, context, queueIndex, current, names, advice, world,
                 dequeued>>

\* one turn of `for (const place of places)`
agentLoopCandidate ==
  /\ pc = "candidates" /\ program = "sim"
  /\ todo # << >>
  /\ todo' = Tail(todo)
  /\ LET place == Head(todo)
         aiLocation == toUpperCase(advice)
     IN  IF place # aiLocation /\ shouldTestLocation(place)
           THEN testAndEnqueue(place)
           ELSE UNCHANGED <<candidate, returned, testedTargets, trace, result, queue,
                            visitedLocations, parent, pc>>
  /\ UNCHANGED <<program, entityLocations, locationEntities, visitedEntities,
                 failedQueries, context, queueIndex, current, names, advice, world,
                 dequeued>>

\* history: "raised" while every advisor call of the run has failed, "fallback"
\* while every one has answered the fallback token, "mixed" otherwise
Answered(reply) ==
  LET how == IF reply = AdvisorThrow THEN "raised"
             ELSE IF reply = AdvisorContent(FallbackToken) THEN "fallback"
             ELSE "mixed"
  IN  IF advisor \in {"none", how} THEN how ELSE "mixed"

\* a search run of either variant
Next ==
  \/ searchAgentSeed
  \/ searchAgentDequeue
  \/ \E req \in inflight : \E reply \in DataReplies(req) :
       searchAgentData(req, reply)
  \/ searchAgentCandidate
  \/ \E req \in inflight : \E reply \in ValidateReplies(req.arg, target) :
       searchAgentValidated(req, reply)
  \/ \E contextLoads \in BOOLEAN : agentLoopStart(contextLoads)
  \/ \E req \in inflight : \E reply \in AdvisorReplies :
       agentLoopSeed(req, reply) /\ advisor' = Answered(reply)
  \/ agentLoopDequeue
  \/ \E req \in inflight : \E reply \in AdvisorReplies :
       agentLoopAdvice(req, reply) /\ advisor' = Answered(reply)
  \/ agentLoopAiCandidate
  \/ agentLoopCandidate
  \/ candidatesDone
  \/ exhausted

Spec == Init /\ [][Next]_vars

\* ------------------------------------------- the exported functions, called
\* A client of the module calls getData, testTarget / testLocation and the
\* advisor directly, in any order, without waiting for earlier calls to settle.
ClientEndpoints == IF program = "live" THEN {"locations", "entities"} ELSE {"places", "people"}

ClientQueries == IF program = "live" THEN {"NodeA", "X"} ELSE {"Gdansk", "KONIN"}

ClientCandidates == IF program = "live" THEN {"X", "x"} ELSE {"OLSZTYN", "olsztyn"}

\* askAI has no handler around its request: a failure of the request is raised
\* the replies the client's calls get: every kind of reply, one of each
ClientDataReplies ==
  {Throw, NoMessage, Message(<<"restricted">>), Message(<<"RESTRICTED">>),
   Message(<<"X">>)}

ClientAdvisorReplies == {AdvisorThrow, AdvisorContent(""), AdvisorContent("KONIN")}

askAIRaises(reply) == reply.kind = "throw"

\* `response.choices[0].message.content?.trim() || ''`
askAI(reply) == Trim(reply.content)

InitCalls ==
  /\ program \in {"live", "sim"}
  /\ pc = "client"
  /\ source = IF program = "live" THEN "any" ELSE "table"
  /\ edges = {}
  /\ target \in IF program = "live" THEN {"X", "none"} ELSE {CORRECT_ANSWER}
  /\ InitKB
  /\ InitRest

clientGetData(endpoint, query) ==
  /\ pc = "client"
  /\ IF getDataCached(endpoint, query)
       THEN /\ returned' = Return("getData", query, Null)
            /\ UNCHANGED <<failedQueries, inflight, trace>>
     ELSE IF program = "live"
       THEN /\ Len(trace) < MaxCalls
            /\ inflight' = inflight \cup {Request("lookup", endpoint, query)}
            /\ trace' = Append(trace, Logged("lookup", endpoint, query))
            /\ UNCHANGED <<failedQueries, returned>>
     ELSE LET r == getDataSim(endpoint, query)
          IN  /\ Len(trace) < MaxCalls
              /\ trace' = Append(trace, Logged("lookup", endpoint, query))
              /\ failedQueries' = IF r.failed THEN failedQueries \cup {query}
                                  ELSE failedQueries
              /\ returned' = Return("getData", query, r.value)
              /\ UNCHANGED inflight
  /\ UNCHANGED <<program, entityLocations, locationEntities, visitedLocations,
                 visitedEntities, testedTargets, context, driver, env, budget,
                 parent, dequeued>>

clientGetDataReply(req, reply) ==
  /\ pc = "client" /\ program = "live"
  /\ req \in inflight /\ req.kind = "lookup"
  /\ inflight' = Settle(inflight, req)
  /\ LET r == getDataLive(reply)
     IN  /\ failedQueries' = IF r.failed THEN failedQueries \cup {req.arg}
                             ELSE failedQueries
         /\ returned' = Return("getData", req.arg, r.value)
  /\ UNCHANGED <<program, entityLocations, locationEntities, visitedLocations,
                 visitedEntities, testedTargets, context, driver, env, budget,
                 trace, parent, dequeued>>

clientTestTarget(tgt) ==
  /\ pc = "client" /\ program = "live"
  /\ IF testTargetSkips(tgt)
       THEN /\ returned' = Return("testTarget", tgt, Bool(FALSE))
            /\ UNCHANGED <<testedTargets, inflight, trace>>
       ELSE /\ Len(trace) < MaxCalls
            /\ testedTargets' = MarkTested(testedTargets, tgt)
            /\ inflight' = inflight \cup {Request("validate", "validate", tgt)}
            /\ trace' = Append(trace, Logged("validate", "validate", tgt))
            /\ UNCHANGED returned
  /\ UNCHANGED <<program, entityLocations, locationEntities, visitedLocations,
                 visitedEntities, failedQueries, context, driver, env, budget,
                 parent, dequeued>>

clientTestTargetReply(req, reply) ==
  /\ pc = "client" /\ program = "live"
  /\ req \in inflight /\ req.kind = "validate"
  /\ inflight' = Settle(inflight, req)
  /\ returned' = Return("testTarget", req.arg, Bool(validateSuccess(reply)))
  /\ UNCHANGED <<program, kb, driver, env, budget, trace, parent, dequeued>>

clientTestLocation(location) ==
  /\ pc = "client" /\ program = "sim"
  /\ IF testLocationSkips(location)
       THEN /\ returned' = Return("testLocation", location, Bool(FALSE))
            /\ UNCHANGED <<testedTargets, trace>>
       ELSE /\ Len(trace) < MaxCalls
            /\ testedTargets' = testedTargets \cup {toUpperCase(location)}
            /\ trace' = Append(trace, Logged("validate", "local", location))
            /\ returned' = Return("testLocation", location, Bool(testLocationVerdict(location)))
  /\ UNCHANGED <<program, entityLocations, locationEntities, visitedLocations,
                 visitedEntities, failedQueries, context, driver, world, parent,
                 dequeued>>

\* askAI (live) or askModel (sim), up to the request
clientAsk ==
  /\ pc = "client"
  /\ Len(trace) < MaxCalls
  /\ inflight' = inflight \cup {Request("advise", "openai", "prompt")}
  /\ trace' = Append(trace, Logged("advise", "openai", "prompt"))
  /\ UNCHANGED <<program, kb, driver, env, budget, parent, dequeued, returned>>

clientAskReply(req, reply) ==
  /\ pc = "client"
  /\ req \in inflight /\ req.kind = "advise"
  /\ inflight' = Settle(inflight, req)
  /\ returned' = IF program = "sim" THEN Return("askModel", req.arg, <<askModel(reply)>>)
                 ELSE IF askAIRaises(reply) THEN Raise("askAI", req.arg)
                 ELSE Return("askAI", req.arg, <<askAI(reply)>>)
  /\ UNCHANGED <<program, kb, driver, env, budget, trace, parent, dequeued>>

NextCalls ==
  \/ \E endpoint \in ClientEndpoints : \E query \in ClientQueries :
       clientGetData(endpoint, query)
  \/ \E req \in inflight : \E reply \in ClientDataReplies :
       clientGetDataReply(req, reply)
  \/ \E tgt \in ClientCandidates : clientTestTarget(tgt)
  \/ \E req \in inflight : \E reply \in ValidateReplies(req.arg, target) :
       clientTestTargetReply(req, reply)
  \/ \E location \in ClientCandidates : clientTestLocation(location)
  \/ clientAsk
  \/ \E req \in inflight : \E reply \in ClientAdvisorReplies : clientAskReply(req, reply)

SpecCalls == InitCalls /\ [][NextCalls]_vars

\* the exported search is called again in the same process: its locals are new,
\* the module-level knowledgeBase is the one the earlier invocation left
searchAgain ==
  /\ pc \in {"found", "exhausted"}
  /\ invocation < MaxInvocations
  /\ invocation' = invocation + 1
  /\ first' = IF invocation = 1 THEN result ELSE first
  /\ pc' = "start"
  /\ queue' = << >>
  /\ queueIndex' = 0
  /\ current' = NoNode
  /\ names' = Null
  /\ todo' = << >>
  /\ candidate' = ""
  /\ advice' = ""
  /\ result' = ""
  /\ advisor' = "none"
  /\ trace' = << >>
  /\ parent' = << >>
  /\ dequeued' = << >>
  /\ returned' = NoReturn
  /\ UNCHANGED <<program, kb, inflight, source, edges, target, budget>>

\* a process that calls the search more than once, against the same data
InitAgain == Init /\ source # "any"

NextAgain ==
  \/ Next
  \/ searchAgain

SpecAgain == InitAgain /\ [][NextAgain]_vars

\* every call settles: the one request in flight is answered, the loop goes on
FairSpec == Spec /\ WF_vars(Next)

\* ------------------------------------------------------------- properties
IsLocation(n) == n.type \in {"location", "city"}

IsEntity(n) == n.type \in {"entity", "person"}

\* the identity of a node in the data model: its type and its name, case-normalized
Identity(n) ==
  [kind |-> IF IsLocation(n) THEN "location" ELSE "entity", name |-> toUpperCase(n.value)]

\* where a search run ends
Terminal == {"found", "exhausted", "raised"}

Validated(c) == \E i \in DOMAIN trace : trace[i].kind = "validate" /\ trace[i].arg = c

ValidatorReturned(v) ==
  returned.fn \in {"testTarget", "testLocation"} /\ returned.value = Bool(v)

\* C1: every node, identified by its type and its case-normalized name, is
\* appended to the frontier queue at most once in a search run, seeding included.
C1_EnqueuedOncePerIdentity ==
  \A i, j \in DOMAIN queue : Identity(queue[i]) = Identity(queue[j]) => i = j

\* C2: once the validation check has been started for a candidate c, no step
\* starts it again for c, and every later call of testTarget / testLocation
\* with c returns false and issues nothing.
C2_ValidatedAtMostOnce ==
  [][\A c \in ClientCandidates :
       Validated(c) =>
         /\ \A i \in DOMAIN trace' :
              (trace'[i].kind = "validate" /\ trace'[i].arg = c) => i \in DOMAIN trace
         /\ (clientTestTarget(c) \/ clientTestLocation(c)) =>
              (returned'.value = Bool(FALSE) /\ trace' = trace /\ inflight' = inflight)]_vars

\* a second call for X returned false while the first call's request is pending
C2_Witness ==
  /\ returned = Return("testTarget", "X", Bool(FALSE))
  /\ \E req \in inflight : req.kind = "validate" /\ req.arg = "X"

\* C3: when a Validator call has returned true the search has returned that
\* candidate, nothing is in flight, and no step follows: no query, no advisor
\* call, no validation, no enqueue, no dequeue.
C3_EarlyTermination ==
  /\ [](ValidatorReturned(TRUE) =>
          /\ pc = "found"
          /\ result = returned.arg
          /\ inflight = {})
  /\ [][~ValidatorReturned(TRUE) /\ pc # "found"]_vars

\* the search returned while candidates of this expansion and nodes of the
\* frontier were still waiting
C3_Witness ==
  /\ pc = "found"
  /\ ValidatorReturned(TRUE)
  /\ todo # << >>
  /\ queueIndex < Len(queue)

\* the starting nodes of the running variant, as queue nodes
SeedNodes ==
  IF program = "live" THEN {Node("location", l) : l \in Range(INITIAL_NODES)}
  ELSE {Node("city", c) : c \in Range(INITIAL_CITIES)}

\* C4: agentLoop on the fixed table, context loaded, returns OLSZTYN whatever
\* the advisor answers: it never runs out of nodes, it returns from the
\* expansion of ECHO, ECHO was enqueued by the expansion of a starting city,
\* the last validation is the one of OLSZTYN, and once the context is loaded
\* the run ends this way.
C4_FindsOlsztyn ==
  /\ []((program = "sim" /\ pc \in {"found", "exhausted"}) =>
          /\ pc = "found"
          /\ result = "OLSZTYN"
          /\ current = Node("person", "ECHO")
          /\ parent[current] \in SeedNodes
          /\ "ECHO" \in DOMAIN entityLocations
          /\ returned = Return("testLocation", "OLSZTYN", Bool(TRUE))
          /\ trace[Len(trace)] = Logged("validate", "local", "OLSZTYN"))
  /\ (program = "sim" /\ pc = "awaitSeedAdvice") ~> (pc = "found" /\ result = "OLSZTYN")

\* agentLoop returned OLSZTYN after the advisor named something else last
C4_Witness ==
  /\ program = "sim" /\ pc = "found" /\ result = "OLSZTYN"
  /\ advice = "KONIN"

\* the nodes reachable from the starting nodes through the answers received
ReachableNodes ==
  SeedNodes
    \cup {Node(IF program = "live" THEN "entity" ELSE "person", e) :
            e \in UNION {Range(locationEntities[l]) : l \in DOMAIN locationEntities}}
    \cup {Node(IF program = "live" THEN "location" ELSE "city", l) :
            l \in UNION {Range(entityLocations[e]) : e \in DOMAIN entityLocations}}

Count(list, x) == Cardinality({i \in DOMAIN list : list[i] = x})

\* C5: every run ends; the not-found sentinel is returned only with the frontier
\* drained and nothing in flight, and then every node reachable from the starting
\* nodes through the answers received was enqueued once and dequeued (expanded) once.
C5_Exhaustion ==
  /\ [](pc = "exhausted" =>
          /\ queueIndex = Len(queue)
          /\ result = (IF program = "live" THEN NoTargetFound ELSE NoDataFound)
          /\ inflight = {}
          /\ \A n \in ReachableNodes : Count(queue, n) = 1 /\ Count(dequeued, n) = 1
          /\ \A i \in DOMAIN queue : queue[i] \in ReachableNodes)
  /\ <>(pc \in Terminal)

\* the frontier ran dry after entities and discovered locations were expanded
C5_Witness ==
  /\ pc = "exhausted"
  /\ DOMAIN entityLocations # {}
  /\ \E i \in DOMAIN queue : IsLocation(queue[i]) /\ queue[i] \notin SeedNodes

\* the place of a node in the order of dequeuing
Pos(n) == CHOOSE i \in DOMAIN dequeued : dequeued[i] = n

\* C6: the frontier is consumed in insertion order (the nodes dequeued are the
\* first queueIndex nodes of the queue, in that order), and of two nodes
\* enqueued by the same step both are dequeued before any node enqueued by the
\* expansion of either, in both drivers and for every advisor answer.
C6_LevelOrder ==
  /\ dequeued = SubSeq(queue, 1, queueIndex)
  /\ \A a, b, c \in DOMAIN parent :
       (parent[a] = parent[b] /\ parent[c] \in {a, b} /\ Includes(dequeued, c)) =>
         /\ Includes(dequeued, a) /\ Includes(dequeued, b)
         /\ Pos(a) < Pos(c) /\ Pos(b) < Pos(c)

\* two nodes enqueued by one expansion, and a node enqueued by expanding one of
\* them that has been dequeued
C6_Witness ==
  \E a, b, c \in DOMAIN parent :
    /\ a # b /\ parent[a] = parent[b] /\ parent[a] # Seed
    /\ parent[c] = a /\ Includes(dequeued, c)

\* the BFS depth of an enqueued node: 0 for a starting node
RECURSIVE Depth(_)
Depth(n) == IF parent[n] = Seed THEN 0 ELSE 1 + Depth(parent[n])

\* whether the validator accepts a location
Validates(l) ==
  IF program = "live" THEN l = target ELSE toUpperCase(l) = CORRECT_ANSWER

\* an entity adjacent to a location the validator accepts, in the relation the
\* data source returned (a failed query returns no edge)
AdjacentToValidating(e) ==
  /\ e.value \in DOMAIN entityLocations
  /\ \E l \in Range(entityLocations[e.value]) : Validates(l)

\* C7: when the search returns, the entity under expansion has minimal depth
\* among the entities adjacent to a location the validator accepts: every
\* enqueued entity of smaller depth has been expanded, and none of them is
\* adjacent to such a location in the relation the data source returned.
C7_ShortestPath ==
  pc = "found" =>
    /\ Validates(result)
    /\ IsEntity(current) /\ AdjacentToValidating(current)
    /\ \A i \in DOMAIN queue :
         (IsEntity(queue[i]) /\ Depth(queue[i]) < Depth(current)) =>
           (Includes(dequeued, queue[i]) /\ ~AdjacentToValidating(queue[i]))

\* the search returned from an entity of depth 3, with entities of depth 1
C7_Witness ==
  /\ pc = "found"
  /\ Depth(current) = 3
  /\ \E i \in DOMAIN queue : IsEntity(queue[i]) /\ Depth(queue[i]) = 1

\* the advisor requests of the run
Advised == {i \in DOMAIN trace : trace[i].kind = "advise"}

\* C8: a failed advisor call and one answered with the fallback token lead the
\* search to the same next state (same queue, same validations, same requests,
\* same result), at the seeding and at every expansion, so that a run in which
\* every advisor call fails is, step by step, the run in which every call
\* answers the fallback token; such a run completes with a result, and no
\* failure of the advisor reaches the driver. The live driver never asks.
C8_FailSoft ==
  /\ [][\A req \in inflight :
          /\ agentLoopSeed(req, AdvisorThrow)
               <=> agentLoopSeed(req, AdvisorContent(FallbackToken))
          /\ agentLoopAdvice(req, AdvisorThrow)
               <=> agentLoopAdvice(req, AdvisorContent(FallbackToken))]_vars
  /\ (advisor = "raised") ~> (pc \in {"found", "exhausted"})
  /\ [](advisor \in {"raised", "fallback"} => advice = FallbackToken /\ ~returned.raised)
  /\ [](program = "live" => Advised = {} /\ advisor = "none")

\* a run in which the advisor failed at the seeding and at three expansions,
\* and which has returned
C8_Witness ==
  /\ pc = "found"
  /\ advisor = "raised"
  /\ Cardinality(Advised) >= 4

\* C9: a getData call for a query recorded as failed returns absent, issues
\* no external request and leaves the knowledge base as it is, whatever the
\* endpoint and whatever is pending; a query once recorded stays recorded.
C9_NoRepeatedQuery ==
  [][/\ failedQueries \subseteq failedQueries'
     /\ \A endpoint \in ClientEndpoints : \A query \in ClientQueries :
          (query \in failedQueries /\ clientGetData(endpoint, query)) =>
            /\ returned' = Return("getData", query, Null)
            /\ trace' = trace
            /\ inflight' = inflight
            /\ UNCHANGED kb]_vars

\* the simulated getData recorded a query as failed, a validation followed, and
\* getData has returned for that query again with no lookup after the validation
C9_Witness ==
  /\ program = "sim"
  /\ returned = Return("getData", returned.arg, Null)
  /\ returned.arg \in failedQueries
  /\ Len(trace) = 2
  /\ trace[1].kind = "lookup" /\ trace[1].arg = returned.arg
  /\ trace[2].kind = "validate"

\* C10: no exported function raises to its caller: getData returns absent and
\* records the query, the validator returns false, and the advisor (askModel,
\* askAI) returns the fallback token on a transport failure or an empty reply.
C10_FailureAbsorption ==
  returned.fn \in {"getData", "testTarget", "testLocation", "askModel", "askAI"} =>
    /\ ~returned.raised
    /\ returned.fn \in {"askModel", "askAI"} =>
         (Len(returned.value) = 1 /\ returned.value[1] # "")
    /\ returned.fn \in {"testTarget", "testLocation"} =>
         returned.value \in {Bool(TRUE), Bool(FALSE)}

\* the names of the starting nodes of the run's variant
StartingNames ==
  IF program = "live" THEN Range(INITIAL_NODES) ELSE Range(INITIAL_CITIES)

IsStartingName(name) ==
  \E start \in StartingNames : toUpperCase(start) = toUpperCase(name)

\* C11: no location whose name is a starting node's name, letter case aside, is
\* passed to the validator, and none is enqueued again after the seeding.
C11_StartingNodesNotValidated ==
  /\ \A i \in DOMAIN trace :
       trace[i].kind = "validate" => ~IsStartingName(trace[i].arg)
  /\ \A i \in DOMAIN queue :
       (IsLocation(queue[i]) /\ IsStartingName(queue[i].value)) =>
         parent[queue[i]] = Seed

\* the collections of the knowledge base are empty
EmptyKB ==
  /\ DOMAIN entityLocations = {} /\ DOMAIN locationEntities = {}
  /\ visitedLocations = {} /\ visitedEntities = {}
  /\ testedTargets = {} /\ failedQueries = {}

\* C12: every invocation of the search starts from an empty knowledge base, and
\* a second invocation in the same process, against the same data, returns
\* what the first one returned.
C12_FreshKnowledgeBase ==
  invocation > 1 =>
    /\ pc = "start" => EmptyKB
    /\ pc \in {"found", "exhausted"} => result = first

\* a list with x moved to the front when it is in it, the rest in their order
MoveToFront(list, x) ==
  IF Includes(list, x) THEN <<x>> \o SelectSeq(list, LAMBDA y : y # x) ELSE list

\* the place of x in a list without repetition
IndexIn(list, x) == CHOOSE i \in DOMAIN list : list[i] = x

\* `part` takes some elements of `list`, each once, in the order of `list`
InOrderOf(part, list) ==
  /\ \A i \in DOMAIN part : Includes(list, part[i])
  /\ \A i, j \in DOMAIN part :
       i < j => IndexIn(list, part[i]) < IndexIn(list, part[j])

\* the advisor request of the expansion under way, and what was done since
LastAdvised == CHOOSE i \in Advised : \A j \in Advised : j <= i

Names(list) == [i \in DOMAIN list |-> list[i].value]

EnqueuedByCurrent ==
  Names(SelectSeq(queue, LAMBDA n : parent[n] = current))

ValidatedByCurrent ==
  LET since == SubSeq(trace, LastAdvised + 1, Len(trace))
  IN  [i \in DOMAIN since |-> since[i].arg]

TestedBeforeCurrent ==
  {toUpperCase(trace[i].arg) : i \in {j \in 1..LastAdvised : trace[j].kind = "validate"}}

\* agentLoop has asked the advisor about the neighbours of `current`
Expanding ==
  /\ program = "sim" /\ names # Null
  /\ pc \in {"aiCandidate", "candidates", "loop", "found"}

\* C13: in an expansion of agentLoop the neighbours enqueued (of a city) or
\* validated (of a person) are names getData returned, taken in the order of
\* that list with the advisor's suggestion moved to the front; once the
\* expansion is over every person not enqueued before has been enqueued, and
\* every place not tested before and not a starting city has been validated.
C13_AdvisorOnlyReorders ==
  Expanding =>
    LET order == MoveToFront(names, toUpperCase(advice))
    IN  /\ current.type = "city" =>
             /\ InOrderOf(EnqueuedByCurrent, order)
             /\ \A i \in DOMAIN names : names[i] \in visitedEntities
        /\ current.type = "person" =>
             /\ InOrderOf(ValidatedByCurrent, order)
             /\ InOrderOf(EnqueuedByCurrent, order)
             /\ pc = "found" => result = ValidatedByCurrent[Len(ValidatedByCurrent)]
             /\ pc = "loop" =>
                  \A i \in DOMAIN names :
                    (toUpperCase(names[i]) \notin TestedBeforeCurrent
                       /\ ~IsStartingName(names[i])) =>
                      Includes(ValidatedByCurrent, names[i])

\* the advisor named the last of three people of a city, none seen before:
\* that one was enqueued first, the others after it in their order
C13_Witness ==
  /\ Expanding /\ current.type = "city" /\ pc = "loop"
  /\ Len(names) = 3 /\ toUpperCase(advice) = names[3]
  /\ EnqueuedByCurrent = <<names[3], names[1], names[2]>>

\* agentLoop has seeded the queue and has not dequeued yet
Seeded == program = "sim" /\ pc = "loop" /\ queueIndex = 0 /\ invocation = 1

\* C14: after the seeding of agentLoop the queue holds the starting cities and
\* nothing else, each once and each in visitedCities, whatever the advisor
\* answered; and when the answer is the name of a starting city, letter case
\* aside, that city is the first of the queue.
C14_SeedingWithAdvisor ==
  Seeded =>
    /\ Len(queue) = Len(INITIAL_CITIES)
    /\ \A i \in DOMAIN INITIAL_CITIES :
         /\ Count(queue, Node("city", INITIAL_CITIES[i])) = 1
         /\ INITIAL_CITIES[i] \in visitedLocations
    /\ IsStartingName(advice) => toUpperCase(queue[1].value) = toUpperCase(advice)

\* String.prototype.toLowerCase, on the pieces of a message
toLowerCase(s) ==
  CASE s = "RESTRICTED" -> "restricted"
    [] s = "X"          -> "x"
    [] s = "NodeA"      -> "nodea"
    [] OTHER            -> s

\* a message with a restriction keyword in it, in any letter case
Restriction(reply) ==
  /\ reply.kind = "message"
  /\ \E i \in DOMAIN reply.words : toLowerCase(reply.words[i]) \in ERROR_KEYWORDS

\* C15: when the reply's message has a restriction keyword in it, in any
\* letter case, getData records the query in failedQueries and returns absent:
\* the message is not split into names.
C15_RestrictionClassified ==
  [][\A req \in inflight : \A reply \in ClientDataReplies :
       (Restriction(reply) /\ clientGetDataReply(req, reply)) =>
         /\ returned' = Return("getData", req.arg, Null)
         /\ req.arg \in failedQueries']_vars

\* a reply of the live data source that carries no name and no restriction
EmptyReply(reply) ==
  \/ reply.kind = "nomessage"
  \/ reply.kind = "message" /\ SplitNames(reply.words) = << >>

\* C16: a lookup that succeeds with no name (live: no message or a blank one;
\* simulated: no entry for the query) makes getData return absent and leaves
\* failedQueries as it is, so that the query is looked up again when asked again.
C16_EmptyNotCached ==
  [][/\ \A req \in inflight : \A reply \in ClientDataReplies :
          (EmptyReply(reply) /\ clientGetDataReply(req, reply)) =>
            /\ returned' = Return("getData", req.arg, Null)
            /\ failedQueries' = failedQueries
     /\ \A endpoint \in ClientEndpoints : \A query \in ClientQueries :
          (program = "sim" /\ query \notin failedQueries
             /\ clientGetData(endpoint, query) /\ returned'.value = Null) =>
            failedQueries' = failedQueries]_vars

\* a validation request for the candidate is pending
Pending(tgt) == \E req \in inflight : req.kind = "validate" /\ req.arg = tgt

\* C17: testTarget marks the candidate as tested in the step in which it finds
\* it untested, before the request is out: a candidate with a request pending
\* is in testedTargets, and a testTarget call for a candidate whose request is
\* pending, or has been answered or has failed, returns false with no request.
C17_MarkBeforeCall ==
  /\ [](\A tgt \in ClientCandidates : Pending(tgt) => tgt \in testedTargets)
  /\ [][\A tgt \in ClientCandidates :
          clientTestLocation(tgt) => toUpperCase(tgt) \in testedTargets']_vars
  /\ [][\A tgt \in ClientCandidates :
          clientTestTarget(tgt) =>
            /\ tgt \in testedTargets'
            /\ (Pending(tgt) \/ Validated(tgt)) =>
                 /\ returned' = Return("testTarget", tgt, Bool(FALSE))
                 /\ inflight' = inflight
                 /\ trace' = trace]_vars

\* the request for a candidate is still pending, alone, and a second call of
\* testTarget for it has returned false
C17_Witness ==
  /\ program = "live"
  /\ \E tgt \in ClientCandidates :
       /\ Pending(tgt)
       /\ Cardinality(inflight) = 1
       /\ Count(trace, Logged("validate", "validate", tgt)) = 1
       /\ testedTargets = {tgt}
       /\ returned = Return("testTarget", tgt, Bool(FALSE))

\* where the driver waits for an external call
Awaiting == {"awaitData", "awaitValidate", "awaitSeedAdvice", "awaitAdvice"}

\* C18: in a search run at most one external call is pending at any time, the
\* driver waits exactly while one is, and the only step taken while a call is
\* pending is its completion: nothing touches the knowledge base or the queue
\* between the start of a call and its completion.
C18_SingleInFlight ==
  /\ [](Cardinality(inflight) <= 1 /\ (inflight # {} <=> pc \in Awaiting))
  /\ [][inflight # {} => (inflight' = {} /\ pc' \notin Awaiting)]_vars

\* a validation is pending, after two nodes were expanded
C18_Witness ==
  /\ pc = "awaitValidate"
  /\ Cardinality(inflight) = 1
  /\ queueIndex >= 2
  /\ DOMAIN locationEntities # {}

\* C19: in every step of a process, re-invocations of the search included,
\* visitedLocations, visitedEntities, testedTargets and failedQueries lose no
\* element, and no lookup goes out for a query that is in failedQueries when
\* getData is called.
C19_MonotoneBookkeeping ==
  [][/\ visitedLocations \subseteq visitedLocations'
     /\ visitedEntities \subseteq visitedEntities'
     /\ testedTargets \subseteq testedTargets'
     /\ failedQueries \subseteq failedQueries'
     /\ \A i \in DOMAIN trace' :
          (i > Len(trace) /\ trace'[i].kind = "lookup") =>
            trace'[i].arg \notin failedQueries]_vars

\* a later invocation dequeued a starting node whose query an earlier one had
\* recorded as failed: getData returned absent and no lookup went out
C19_Witness ==
  /\ invocation > 1
  /\ Len(dequeued) = 1
  /\ current.value \in failedQueries
  /\ returned = Return("getData", current.value, Null)
  /\ trace = << >>

\* the names of the locations, and of the entities, in the queue
QueuedLocations == {queue[i].value : i \in {j \in DOMAIN queue : IsLocation(queue[j])}}

QueuedEntities == {queue[i].value : i \in {j \in DOMAIN queue : IsEntity(queue[j])}}

\* C20: throughout a search run the location names in the queue are the
\* elements of visitedLocations and the entity names in it those of
\* visitedEntities, at the loop boundaries in particular; a step adds a name
\* to a visited set exactly when it appends the name's node to the queue.
C20_FrontierMatchesVisited ==
  /\ [](QueuedLocations = visitedLocations /\ QueuedEntities = visitedEntities)
  /\ [][/\ visitedLocations' \ visitedLocations = QueuedLocations' \ QueuedLocations
        /\ visitedEntities' \ visitedEntities = QueuedEntities' \ QueuedEntities]_vars

\* a loop boundary with discovered locations and entities in the queue
C20_Witness ==
  /\ pc = "loop"
  /\ queueIndex >= 3
  /\ Cardinality(visitedLocations) >= 3
  /\ Cardinality(visitedEntities) >= 2
  /\ QueuedLocations = visitedLocations

\* every reply the validation endpoint can give
AnyValidateReply ==
  {ValidateThrow} \cup {ValidateData(c, m) : c \in {0, -1}, m \in BOOLEAN}

\* C21: testTarget returns true exactly when the candidate was not tested
\* before and the reply has code 0 and a message with the marker SUCCESS:; a
\* reply with another code, without the marker or without a message, and a
\* failed request, give false; the candidate is in testedTargets afterwards
\* in every case, and a candidate already tested gives false.
C21_ValidatorSuccessRule ==
  [][/\ \A req \in inflight : \A reply \in AnyValidateReply :
          clientTestTargetReply(req, reply) =>
            /\ returned'.value = Bool(reply = ValidateData(0, TRUE))
            /\ req.arg \in testedTargets'
     /\ \A tgt \in ClientCandidates :
          (clientTestTarget(tgt) /\ tgt \in testedTargets) =>
            (returned'.value = Bool(FALSE) /\ tgt \in testedTargets')]_vars

\* testTarget has returned true for a candidate, which is marked as tested
C21_Witness ==
  /\ program = "live"
  /\ returned.fn = "testTarget" /\ returned.value = Bool(TRUE)
  /\ returned.arg \in testedTargets
  /\ inflight = {}

\* C22: when the case context cannot be loaded agentLoop raises at once: no
\* advisor call, lookup or validation has been made, nothing is pending, no
\* node is enqueued or marked visited, and no result (target or sentinel) is
\* returned; nothing follows the raise, and every call of a simulated run
\* is made with the context loaded.
C22_ContextLoadFatal ==
  /\ [](pc = "raised" =>
          /\ program = "sim"
          /\ returned = Raise("agentLoop", "getText")
          /\ trace = << >> /\ inflight = {}
          /\ queue = << >> /\ EmptyKB /\ context = ""
          /\ result = "")
  /\ []((program = "sim" /\ pc # "start" /\ pc # "raised") => context = "loaded")
  /\ [][pc # "raised" /\ (agentLoopStart(FALSE) => pc' = "raised")]_vars

\* the context could not be loaded and agentLoop has raised
C22_Witness ==
  /\ pc = "raised"
  /\ returned.raised /\ returned.fn = "agentLoop"
  /\ advisor = "none"

\* the locations marked visited that are not starting nodes, as the code
\* tells them apart (the exact strings of INITIAL_NODES / INITIAL_CITIES)
VisitedNonStarting ==
  {l \in visitedLocations : l \notin StartingNames}

\* between two iterations of the driver's loops, no success so far
LoopBoundary == pc \in {"loop", "candidates", "exhausted"} /\ invocation = 1

\* C23: at every loop boundary of searchAgent before a success the locations
\* in visitedLocations that are not starting nodes are exactly the elements of
\* testedTargets: a location is enqueued only once testTarget has returned
\* false for it, and every location that failed validation is enqueued. The
\* same holds in agentLoop, with the names compared in upper case.
C23_ValidationPrecedesEnqueue ==
  LoopBoundary =>
    /\ program = "live" => VisitedNonStarting = testedTargets
    /\ program = "sim" =>
         {toUpperCase(l) : l \in VisitedNonStarting} = testedTargets

\* a loop boundary of searchAgent with two locations that failed validation
C23_Witness ==
  /\ program = "live" /\ pc = "loop"
  /\ Cardinality(testedTargets) >= 2
  /\ VisitedNonStarting = testedTargets

\* a lookup for the query went out to the endpoint
LookedUp(endpoint, query) ==
  \E i \in DOMAIN trace : trace[i] = Logged("lookup", endpoint, query)

\* C24: the failure cache is keyed by the query string alone: once getData has
\* recorded a query as failed after a lookup at one endpoint, a getData call
\* with the same string for the other endpoint, never asked before, returns
\* absent and no lookup goes out.
C24_CacheKeyedByQuery ==
  [][\A endpoint \in ClientEndpoints : \A other \in ClientEndpoints :
       \A query \in ClientQueries :
         (/\ endpoint # other
          /\ query \in failedQueries
          /\ LookedUp(other, query) /\ ~LookedUp(endpoint, query)
          /\ clientGetData(endpoint, query)) =>
           /\ returned' = Return("getData", query, Null)
           /\ trace' = trace
           /\ inflight' = inflight
           /\ failedQueries' = failedQueries]_vars

\* the people endpoint was asked for a city and the query was recorded as
\* failed; after a validation, getData returned absent for the same string
\* again, and the places endpoint, which knows the city, was never asked
C24_Witness ==
  /\ program = "sim"
  /\ failedQueries = {"Gdansk"}
  /\ LookedUp("people", "Gdansk") /\ ~LookedUp("places", "Gdansk")
  /\ trace[Len(trace)].kind = "validate"
  /\ returned = Return("getData", "Gdansk", Null)
  /\ Len(getDataSim("places", "Gdansk").value) > 0

====
